---- MODULE Spec2Model ----
(***************************************************************************)
(* Mason build script (src/build.rs): one sequential run of main().        *)
(*                                                                         *)
(* Strings are sequences of chunks.  Every path that the program takes     *)
(* apart (manifest paths, directory entries, OUT_DIR) is a sequence of     *)
(* one-character chunks, so that file_name(), replace() and the regular    *)
(* expression of assemble() work character by character.  The literal      *)
(* fragments of the program's format strings ("_binary_", "start", ".o",   *)
(* "lib", ...) are appended as single chunks.                              *)
(***************************************************************************)
EXTENDS Integers, Sequences, FiniteSets, TLC

VARIABLES
    target_string,  \* environment: TARGET, a triple split at '-', or None
    out_dir_env,    \* environment: OUT_DIR, or None
    cwd_depth,      \* environment: number of ancestors of the working directory
    manifest_dirs,  \* environment: levels above the cwd that hold a mason.toml
    search_max,     \* the search bound used by search_for_config
    manifest,       \* environment: what reading and parsing mason.toml gives
    pc,             \* position of the run
    context,        \* Context without its objects field, or None
    objects,        \* context.objects
    located,        \* result of search_for_config
    config,         \* parsed Config, until main has moved its fields out
    include_files,  \* main: merged set of binary paths
    asm_dirs,       \* main: merged set of assembly directories
    files_todo,     \* main: what the loop over include_files has not visited
    dirs_todo,      \* main: what the loop over asm_dirs has not visited
    entries_todo,   \* assemble_directory: entries read_dir has not yielded yet
    path,           \* package_binary: binary_path; assemble: path
    object_file,    \* package_binary / assemble: object_file
    result,         \* captured output of ld, as or ar
    rename,         \* captured output of objcopy
    invocations,    \* every external tool run so far, in order
    stdout,         \* lines printed for cargo, in order
    fatal           \* None, or the panic / fatal_error that ended the run

vars == <<target_string, out_dir_env, cwd_depth, manifest_dirs, search_max,
          manifest, pc, context, objects, located, config, include_files,
          asm_dirs, files_todo, dirs_todo, entries_todo, path, object_file,
          result, rename, invocations, stdout, fatal>>

\* Option<T>: None is the empty sequence, Some(x) the one-element sequence
None == <<>>

Some(x) == <<x>>

IsSome(o) == o # <<>>

Unwrap(o) == o[1]

(***************************************************************************)
(* Bounds of the model.                                                    *)
(***************************************************************************)
MaxPaths == 2   \* paths listed in one manifest, over all four lists
MaxDepth == 3   \* depth of the working directory below the root
MaxBound == 4   \* largest search bound tried by the locator specification

(***************************************************************************)
(* Program constants.                                                      *)
(***************************************************************************)
SEARCH_MAX == 100

(***************************************************************************)
(* String helpers.                                                         *)
(***************************************************************************)
Min(S) == CHOOSE x \in S : \A y \in S : x <= y

Max(S) == CHOOSE x \in S : \A y \in S : x >= y

Range(s) == {s[i] : i \in DOMAIN s}

\* str::replace for one-character patterns
Replace(s, from, to) == [i \in 1..Len(s) |-> IF s[i] = from THEN to ELSE s[i]]

\* the character class [A-Za-z0-9_]
WordChars ==
    {"a","b","c","d","e","f","g","h","i","j","k","l","m","n","o","p","q","r",
     "s","t","u","v","w","x","y","z",
     "A","B","C","D","E","F","G","H","I","J","K","L","M","N","O","P","Q","R",
     "S","T","U","V","W","X","Y","Z",
     "0","1","2","3","4","5","6","7","8","9","_"}

IsWord(s, from, to) == \A k \in from..to : s[k] \in WordChars

(***************************************************************************)
(* Target::new                                                             *)
(***************************************************************************)
\* the triple is kept split at '-', so split('-').next() is its head
TargetNew(triple) ==
    CASE Head(triple) = "riscv64imac" ->
            Some([cpu_arch |-> "rv64imac", gnu_prefix |-> "riscv64",
                  platform |-> "riscv", ptr_width |-> 64, fp_width |-> 0,
                  abi |-> "lp64"])
      [] Head(triple) = "riscv64gc" ->
            Some([cpu_arch |-> "rv64gc", gnu_prefix |-> "riscv64",
                  platform |-> "riscv", ptr_width |-> 64, fp_width |-> 64,
                  abi |-> "lp64"])
      [] OTHER -> None     \* panic!("Unsupported target")

\* format!("{}-linux-gnu-<tool>", target.gnu_prefix)
ToolExec(target, tool) == <<target.gnu_prefix, "-linux-gnu-", tool>>

(***************************************************************************)
(* search_for_config: the directory `level` levels above the working       *)
(* directory is examined in iteration `level` of the loop; the root is     *)
(* level cwd_depth and has no parent.                                      *)
(***************************************************************************)
RECURSIVE SearchLoop(_, _, _, _)
SearchLoop(depth, dirs, level, remaining) ==
    IF remaining = 0
    THEN [found |-> None, steps |-> level]              \* loop exhausted
    ELSE IF level \in dirs
         THEN [found |-> Some(level), steps |-> level + 1]  \* attempt.exists()
         ELSE IF level = depth
              THEN [found |-> None, steps |-> level + 1]    \* parent() is None
              ELSE SearchLoop(depth, dirs, level + 1, remaining - 1)

SearchOneMore(depth, dirs, bound) == SearchLoop(depth, dirs, 0, bound + 1)

search_for_config(depth, dirs, bound) == SearchLoop(depth, dirs, 0, bound)

(***************************************************************************)
(* add_file_paths_from_config: HashSet::insert of every listed path.       *)
(* An entry is [include_files: Option<Seq>, asm_dirs: Option<Seq>].        *)
(***************************************************************************)
RECURSIVE InsertAll(_, _)
InsertAll(set, list) ==
    IF list = <<>> THEN set
    ELSE InsertAll(set \cup {Head(list)}, Tail(list))

FieldLastOnly(field, set) ==
    IF IsSome(field) /\ Unwrap(field) # <<>>
    THEN {Unwrap(field)[Len(Unwrap(field))]}
    ELSE set

AddField(field, set) ==
    IF IsSome(field) THEN InsertAll(set, Unwrap(field)) ELSE set

add_file_paths_from_config(entry, files, dirs) ==
    [include_files |-> AddField(entry.include_files, files),
     asm_dirs      |-> AddField(entry.asm_dirs, dirs)]

TargetEntryByArch(targets, triple) ==
    IF \E k \in DOMAIN targets : Head(k) = Head(triple)
    THEN Some(targets[CHOOSE k \in DOMAIN targets : Head(k) = Head(triple)])
    ELSE None

\* targets.get(&target_string): the key is the whole triple
TargetEntry(targets, triple) ==
    IF triple \in DOMAIN targets THEN Some(targets[triple]) ELSE None

\* main, lines 147-165
MergeConfig(cfg, triple) ==
    LET d == IF IsSome(cfg.defaults)
             THEN add_file_paths_from_config(Unwrap(cfg.defaults), {}, {})
             ELSE [include_files |-> {}, asm_dirs |-> {}]
        arch == IF IsSome(cfg.target)
                THEN TargetEntry(Unwrap(cfg.target), triple)
                ELSE None
    IN  IF IsSome(arch)
        THEN add_file_paths_from_config(Unwrap(arch), d.include_files, d.asm_dirs)
        ELSE d

(***************************************************************************)
(* Path::file_name: the last component, trailing separators and trailing   *)
(* "." components dropped; None for "..", "." and the empty path.          *)
(***************************************************************************)
RECURSIVE TrimTrailing(_)
TrimTrailing(p) ==
    IF Len(p) > 1 /\ p[Len(p)] = "/"
    THEN TrimTrailing(SubSeq(p, 1, Len(p) - 1))
    ELSE IF Len(p) > 2 /\ p[Len(p)] = "." /\ p[Len(p) - 1] = "/"
         THEN TrimTrailing(SubSeq(p, 1, Len(p) - 2))
         ELSE p

file_name(p) ==
    LET t == TrimTrailing(p)
        slashes == {i \in 1..Len(t) : t[i] = "/"}
        first == IF slashes = {} THEN 1 ELSE Max(slashes) + 1
        leaf == SubSeq(t, first, Len(t))
    IN  IF leaf = <<>> \/ leaf = <<".">> \/ leaf = <<".", ".">>
        THEN None
        ELSE Some(leaf)

\* format!("{}/{}.o", &context.output_dir, &leafname)
ObjectFile(output_dir, leafname) == output_dir \o <<"/">> \o leafname \o <<".o">>

(***************************************************************************)
(* package_binary: the symbol names                                        *)
(***************************************************************************)
\* format!("_binary_{}_", &binary_path.replace("/", "_").replace(".", "_"))
SymbolPrefix(binary_path) ==
    <<"_binary_">> \o Replace(Replace(binary_path, "/", "_"), ".", "_") \o <<"_">>

RenamedPrefixFromPath(binary_path, leafname) ==
    <<"_binary_">> \o Replace(binary_path, ".", "_") \o <<"_">>

\* format!("_binary_{}_", &leafname.replace(".", "_"))
RenamedPrefix(binary_path, leafname) ==
    <<"_binary_">> \o Replace(leafname, ".", "_") \o <<"_">>

\* the three --redefine-sym arguments, each "old=new"
RedefineSyms(binary_path, leafname) ==
    [i \in 1..3 |->
        LET suffix == <<"start", "end", "size">>[i]
        IN  [old |-> SymbolPrefix(binary_path) \o <<suffix>>,
             new |-> RenamedPrefix(binary_path, leafname) \o <<suffix>>]]

(***************************************************************************)
(* assemble: Regex (([A-Za-z0-9_]+)(/))+(?P<leaf>[A-Za-z0-9_]+)(\.s),      *)
(* searched anywhere in the path (captures() is not anchored).  A match    *)
(* is a '/' preceded by a word character and followed by a run of word     *)
(* characters that is followed by ".s"; the leftmost match is the one      *)
(* whose leaf starts first.                                                *)
(***************************************************************************)
LeafSpans(p) ==
    UNION {{<<l, e>> : e \in {x \in l..(Len(p) - 2) :
                                /\ IsWord(p, l, x)
                                /\ p[x + 1] = "." /\ p[x + 2] = "s"}} :
           l \in {y \in 3..Len(p) : p[y - 1] = "/" /\ p[y - 2] \in WordChars}}

regex_captures(p) ==
    IF LeafSpans(p) = {} THEN None
    ELSE LET first == Min({sp[1] : sp \in LeafSpans(p)})
             sp == CHOOSE s \in LeafSpans(p) : s[1] = first
         IN  Some(SubSeq(p, sp[1], sp[2]))

(***************************************************************************)
(* register_object: HashSet::insert, panic when it returns false           *)
(***************************************************************************)
RegisterUnchecked(p, objs) == [ok |-> TRUE, objects |-> objs \cup {p}]

RegisterInverted(p, objs) == [ok |-> p \in objs, objects |-> objs \cup {p}]

register_object(p, objs) ==
    [ok |-> p \notin objs, objects |-> objs \cup {p}]

ToolNeverFailed(exit) == FALSE

\* result.status.success() != true
ToolFailed(exit) == exit # 0

(***************************************************************************)
(* The host environment of the runs that are explored.                     *)
(***************************************************************************)
GcTriple == <<"riscv64gc", "unknown", "none", "elf">>

ImacTriple == <<"riscv64imac", "unknown", "none", "elf">>

HostTriple == <<"x86_64", "unknown", "linux", "gnu">>

OutDir == <<"o", "u", "t">>

BlobBin == <<"b","l","o","b",".","b","i","n">>

AFontBin == <<"a","/","f","o","n","t",".","b","i","n">>

BFontBin == <<"b","/","f","o","n","t",".","b","i","n">>

FwEntry == <<"f","w","/","e","n","t","r","y">>

BinaryPaths == {BlobBin, AFontBin, BFontBin, FwEntry}

SrcBoot == <<"s","r","c","/","b","o","o","t">>

SrcAsm == <<"s","r","c","/","a","s","m">>

SrcNone == <<"s","r","c","/","n","o","n","e">>

AsmDirPaths == {SrcBoot, SrcAsm, SrcNone}

EntryS == <<"e","n","t","r","y",".","s">>

StartS == <<"s","t","a","r","t",".","s">>

ReadmeMd == <<"R","E","A","D","M","E",".","m","d">>

BuildSh == <<"b","u","i","l","d",".","s","h">>

Trap == <<"t","r","a","p">>

VectorS == <<"v","e","c","t","o","r",".","s">>

\* the directories of the host file system and their direct entries
ExistingDirs == {SrcBoot, SrcAsm, SrcAsm \o <<"/">> \o Trap}

DirectoryEntries(dir) ==
    CASE dir = SrcBoot -> {[name |-> EntryS, is_file |-> TRUE]}
      [] dir = SrcAsm  -> {[name |-> StartS, is_file |-> TRUE],
                           [name |-> ReadmeMd, is_file |-> TRUE],
                           [name |-> BuildSh, is_file |-> TRUE],
                           [name |-> Trap, is_file |-> FALSE]}
      [] dir = SrcAsm \o <<"/">> \o Trap -> {[name |-> VectorS, is_file |-> TRUE]}
      [] OTHER -> {}

\* what an external tool run can give: spawn failure, or an exit status with
\* captured stdout and stderr
Outputs == {[stdout |-> "", stderr |-> ""], [stdout |-> "note", stderr |-> "error"]}

Outcomes == {[spawned |-> FALSE, exit |-> 0, out |-> [stdout |-> "", stderr |-> ""]]}
            \cup {[spawned |-> TRUE, exit |-> x, out |-> o] : x \in {0, 1}, o \in Outputs}

\* the manifests: every list is absent or a non-empty sequence of paths
SeqsUpTo(S, n) == UNION {[1..k -> S] : k \in 1..n}

OptLists(S) == {None} \cup {Some(l) : l \in SeqsUpTo(S, MaxPaths)}

FieldLen(field) == IF IsSome(field) THEN Len(Unwrap(field)) ELSE 0

EntryLen(e) == FieldLen(e.include_files) + FieldLen(e.asm_dirs)

ConfigEntries ==
    {e \in [include_files : OptLists(BinaryPaths), asm_dirs : OptLists(AsmDirPaths)] :
        EntryLen(e) <= MaxPaths}

TargetKeys == {<<"riscv64gc">>, GcTriple}

DefaultsOfLen(k) ==
    (IF k = 0 THEN {None} ELSE {})
    \cup {Some(e) : e \in {x \in ConfigEntries : EntryLen(x) = k}}

TargetsUpTo(k) ==
    {None} \cup {Some([key \in {t} |-> e]) :
                    t \in TargetKeys, e \in {x \in ConfigEntries : EntryLen(x) <= k}}

Configs ==
    UNION {{[defaults |-> d, target |-> t] :
                d \in DefaultsOfLen(k), t \in TargetsUpTo(MaxPaths - k)} :
           k \in 0..MaxPaths}

Manifests ==
    {[kind |-> "unreadable", config |-> None], [kind |-> "malformed", config |-> None]}
    \cup {[kind |-> "toml", config |-> Some(c)] : c \in Configs}

NoManifest == [kind |-> "absent", config |-> None]

(***************************************************************************)
(* The run.                                                                *)
(***************************************************************************)
env == <<target_string, out_dir_env, cwd_depth, manifest_dirs, search_max, manifest>>

merged == <<include_files, asm_dirs>>

locals == <<path, object_file, result, rename>>

\* panic!() and fatal_error(): the run ends; `captured` is the tool output
\* that the message prints, if it prints any
Die(reason, captured) ==
    /\ pc' = "fatal"
    /\ fatal' = Some([reason |-> reason, captured |-> captured])

Invocation(tool, exec, args, input, objs, output, exit) ==
    [tool |-> tool, exec |-> exec, args |-> args, input |-> input,
     objects |-> objs, output |-> output, exit |-> exit]

Init ==
    /\ \/ /\ target_string \in {None, Some(HostTriple)}
          /\ out_dir_env = Some(OutDir)
          /\ manifest_dirs = {1}
          /\ manifest = [kind |-> "toml", config |-> Some([defaults |-> None, target |-> None])]
       \/ /\ target_string \in {Some(GcTriple), Some(ImacTriple)}
          /\ out_dir_env = None
          /\ manifest_dirs = {1}
          /\ manifest = [kind |-> "toml", config |-> Some([defaults |-> None, target |-> None])]
       \/ /\ target_string = Some(GcTriple)
          /\ out_dir_env = Some(OutDir)
          /\ \/ manifest_dirs = {} /\ manifest = NoManifest
             \/ manifest_dirs = {1} /\ manifest \in Manifests
    /\ cwd_depth = 1
    /\ search_max = SEARCH_MAX
    /\ pc = "start"
    /\ context = None
    /\ objects = {}
    /\ located = None
    /\ config = None
    /\ include_files = {}
    /\ asm_dirs = {}
    /\ files_todo = {}
    /\ dirs_todo = {}
    /\ entries_todo = {}
    /\ path = None
    /\ object_file = None
    /\ result = None
    /\ rename = None
    /\ invocations = <<>>
    /\ stdout = <<>>
    /\ fatal = None

\* main, lines 129-142
ResolveTarget ==
    /\ pc = "start"
    /\ IF ~IsSome(target_string)
       THEN Die("Missing target triple", None) /\ UNCHANGED context
       ELSE IF ~IsSome(TargetNew(Unwrap(target_string)))
            THEN Die("Unsupported target", None) /\ UNCHANGED context
            ELSE IF ~IsSome(out_dir_env)
                 THEN Die("No output directory specified", None) /\ UNCHANGED context
                 ELSE LET target == Unwrap(TargetNew(Unwrap(target_string)))
                      IN  /\ context' = Some([output_dir |-> Unwrap(out_dir_env),
                                              as_exec |-> ToolExec(target, "as"),
                                              ar_exec |-> ToolExec(target, "ar"),
                                              ld_exec |-> ToolExec(target, "ld"),
                                              oc_exec |-> ToolExec(target, "objcopy"),
                                              target |-> target])
                          /\ pc' = "config"
                          /\ UNCHANGED fatal
    /\ UNCHANGED <<env, objects, located, config, merged, files_todo, dirs_todo,
                   entries_todo, locals, invocations, stdout>>

\* parse_config_file, lines 366-385, with search_for_config
ParseConfigFile ==
    /\ pc = "config"
    /\ located' = Some(search_for_config(cwd_depth, manifest_dirs, search_max))
    /\ IF ~IsSome(Unwrap(located').found)
       THEN Die("Can't find configuration file", None) /\ UNCHANGED config
       ELSE IF manifest.kind = "unreadable"
            THEN Die("Can't read configuration file", None) /\ UNCHANGED config
            ELSE IF manifest.kind = "malformed"
                 THEN Die("Can't parse configuration file", None) /\ UNCHANGED config
                 ELSE /\ config' = manifest.config
                      /\ pc' = "merge"
                      /\ UNCHANGED fatal
    /\ UNCHANGED <<env, context, objects, merged, files_todo, dirs_todo,
                   entries_todo, locals, invocations, stdout>>

\* main, lines 147-168: the two sets are filled, config's fields are moved out
MergeManifest ==
    /\ pc = "merge"
    /\ LET m == MergeConfig(Unwrap(config), Unwrap(target_string))
       IN  /\ include_files' = m.include_files
           /\ asm_dirs' = m.asm_dirs
           /\ files_todo' = m.include_files
           /\ dirs_todo' = m.asm_dirs
    /\ config' = None
    /\ pc' = "main"
    /\ UNCHANGED <<env, context, objects, located, entries_todo, locals,
                   invocations, stdout, fatal>>

\* package_binary, lines 196-216: the linker wraps the binary
PackageBinaryLd ==
    /\ pc = "main"
    /\ files_todo # {}
    /\ \E f \in files_todo, o \in Outcomes :
        LET ctx == Unwrap(context)
            leafname == file_name(f)
            obj == ObjectFile(ctx.output_dir, Unwrap(leafname))
        IN  /\ files_todo' = files_todo \ {f}
            /\ path' = Some(f)
            /\ IF ~IsSome(leafname)
               THEN /\ Die("file_name() is None", None)
                    /\ UNCHANGED <<object_file, result, invocations>>
               ELSE /\ object_file' = Some(obj)
                    /\ IF ~o.spawned
                       THEN /\ Die("Couldn't run command to convert", None)
                            /\ UNCHANGED <<result, invocations>>
                       ELSE /\ invocations' = Append(invocations,
                                    Invocation("ld", ctx.ld_exec, <<"-r", "--format=binary">>,
                                               f, {}, obj, o.exit))
                            /\ result' = Some(o.out)
                            /\ IF ToolFailed(o.exit)
                               THEN Die("Conversion failed", Some(o.out))
                               ELSE pc' = "ld_done" /\ UNCHANGED fatal
    /\ UNCHANGED <<env, context, objects, located, config, merged, dirs_todo,
                   entries_todo, rename, stdout>>

\* package_binary, lines 218-242: objcopy renames the three symbols
PackageBinaryRename ==
    /\ pc = "ld_done"
    /\ \E o \in Outcomes :
        LET ctx == Unwrap(context)
            binary_path == Unwrap(path)
            leafname == Unwrap(file_name(binary_path))
        IN  IF ~o.spawned
            THEN /\ Die("Couldn't run command to rename symbols", None)
                 /\ UNCHANGED <<rename, invocations>>
            ELSE /\ invocations' = Append(invocations,
                        Invocation("objcopy", ctx.oc_exec, RedefineSyms(binary_path, leafname),
                                   Unwrap(object_file), {}, Unwrap(object_file), o.exit))
                 /\ rename' = Some(o.out)
                 /\ IF ToolFailed(o.exit)
                    THEN Die("Symbol rename failed", result)   \* line 241 prints `result`
                    ELSE pc' = "renamed" /\ UNCHANGED fatal
    /\ UNCHANGED <<env, context, objects, located, config, merged, files_todo,
                   dirs_todo, entries_todo, path, object_file, result, stdout>>

\* package_binary, lines 244-245, with register_object
PackageBinaryRegister ==
    /\ pc = "renamed"
    /\ stdout' = Append(stdout, [directive |-> "rerun-if-changed", arg |-> Unwrap(path)])
    /\ LET r == register_object(Unwrap(object_file), objects)
       IN  /\ objects' = r.objects
           /\ IF r.ok
              THEN /\ pc' = "main"
                   /\ path' = None /\ object_file' = None
                   /\ result' = None /\ rename' = None
                   /\ UNCHANGED fatal
              ELSE /\ Die("Cannot register object", None)
                   /\ UNCHANGED locals
    /\ UNCHANGED <<env, context, located, config, merged, files_todo, dirs_todo,
                   entries_todo, invocations>>

\* the loop of assemble_directory goes on, or main's loop over asm_dirs does
AfterEntry(todo) == IF todo = {} THEN "main" ELSE "dir"

\* file.path(): the directory joined with the entry's name
EntryPath(dir, name) == dir \o <<"/">> \o name

\* assemble_directory, lines 263-270
AssembleDirectory ==
    /\ pc = "main"
    /\ files_todo = {}
    /\ dirs_todo # {}
    /\ \E dir \in dirs_todo :
        /\ dirs_todo' = dirs_todo \ {dir}
        /\ IF dir \notin ExistingDirs
           THEN Die("Cannot assembly directory", None) /\ UNCHANGED entries_todo
           ELSE /\ entries_todo' = {[path |-> EntryPath(dir, e.name), is_file |-> e.is_file] :
                                        e \in DirectoryEntries(dir)}
                /\ pc' = AfterEntry(entries_todo')
                /\ UNCHANGED fatal
    /\ UNCHANGED <<env, context, objects, located, config, merged, files_todo,
                   locals, invocations, stdout>>

\* assemble_directory, lines 272-285, and assemble, lines 296-301: an entry
\* that is no regular file, or whose path the expression does not match
SkipEntry ==
    /\ pc = "dir"
    /\ \E e \in entries_todo :
        /\ ~e.is_file \/ ~IsSome(regex_captures(e.path))
        /\ entries_todo' = entries_todo \ {e}
        /\ pc' = AfterEntry(entries_todo')
    /\ UNCHANGED <<env, context, objects, located, config, merged, files_todo,
                   dirs_todo, locals, invocations, stdout, fatal>>

\* assemble, lines 292-329: the assembler runs on a matching file
Assemble ==
    /\ pc = "dir"
    /\ \E e \in entries_todo, o \in Outcomes :
        LET ctx == Unwrap(context)
            leafname == regex_captures(e.path)
            obj == ObjectFile(ctx.output_dir, Unwrap(leafname))
        IN  /\ e.is_file /\ IsSome(leafname)
            /\ entries_todo' = entries_todo \ {e}
            /\ path' = Some(e.path)
            /\ object_file' = Some(obj)
            /\ IF ~o.spawned
               THEN /\ Die("Failed to execute command to assemble", None)
                    /\ UNCHANGED <<result, invocations>>
               ELSE /\ invocations' = Append(invocations,
                            Invocation("as", ctx.as_exec,
                                       [march |-> ctx.target.cpu_arch, mabi |-> ctx.target.abi,
                                        ptrwidth |-> ctx.target.ptr_width,
                                        fpwidth |-> ctx.target.fp_width],
                                       e.path, {}, obj, o.exit))
                    /\ result' = Some(o.out)
                    /\ IF ToolFailed(o.exit)
                       THEN Die("Assembling failed", Some(o.out))
                       ELSE pc' = "as_done" /\ UNCHANGED fatal
    /\ UNCHANGED <<env, context, objects, located, config, merged, files_todo,
                   dirs_todo, rename, stdout>>

\* assemble, lines 331-332, with register_object
AssembleRegister ==
    /\ pc = "as_done"
    /\ stdout' = Append(stdout, [directive |-> "rerun-if-changed", arg |-> Unwrap(path)])
    /\ LET r == register_object(Unwrap(object_file), objects)
       IN  /\ objects' = r.objects
           /\ IF r.ok
              THEN /\ pc' = AfterEntry(entries_todo)
                   /\ path' = None /\ object_file' = None /\ result' = None
                   /\ UNCHANGED <<rename, fatal>>
              ELSE /\ Die("Cannot register object", None)
                   /\ UNCHANGED locals
    /\ UNCHANGED <<env, context, located, config, merged, files_todo, dirs_todo,
                   entries_todo, invocations>>

ArchiveName == <<"mason-bundle">>

\* format!("{}/lib{}.a", &context.output_dir, &archive_name)
ArchivePath(output_dir) == output_dir \o <<"/", "lib">> \o ArchiveName \o <<".a">>

\* link_archive, lines 336-363
LinkArchive ==
    /\ pc = "main"
    /\ files_todo = {}
    /\ dirs_todo = {}
    /\ \E o \in Outcomes :
        LET ctx == Unwrap(context)
        IN  IF ~o.spawned
            THEN /\ Die("Failed to execute command to archive", None)
                 /\ UNCHANGED <<result, invocations, stdout>>
            ELSE /\ invocations' = Append(invocations,
                        Invocation("ar", ctx.ar_exec, <<"crus">>, <<>>, objects,
                                   ArchivePath(ctx.output_dir), o.exit))
                 /\ result' = Some(o.out)
                 /\ IF ToolFailed(o.exit)
                    THEN Die("Archiving failed", Some(o.out)) /\ UNCHANGED stdout
                    ELSE /\ stdout' = stdout \o
                                <<[directive |-> "rustc-link-search", arg |-> ctx.output_dir],
                                  [directive |-> "rustc-link-lib=static", arg |-> ArchiveName]>>
                         /\ pc' = "done"
                         /\ UNCHANGED fatal
    /\ UNCHANGED <<env, context, objects, located, config, merged, files_todo,
                   dirs_todo, entries_todo, path, object_file, rename>>

Next ==
    \/ ResolveTarget
    \/ ParseConfigFile
    \/ MergeManifest
    \/ PackageBinaryLd
    \/ PackageBinaryRename
    \/ PackageBinaryRegister
    \/ AssembleDirectory
    \/ SkipEntry
    \/ Assemble
    \/ AssembleRegister
    \/ LinkArchive

Spec == Init /\ [][Next]_vars

(***************************************************************************)
(* The manifest locator on its own: search_for_config applied to every     *)
(* working directory, placement of manifests and search bound.             *)
(***************************************************************************)
InitLocate ==
    /\ cwd_depth \in 0..MaxDepth
    /\ manifest_dirs \in SUBSET (0..cwd_depth)
    /\ search_max \in 0..MaxBound
    /\ target_string = Some(GcTriple)
    /\ out_dir_env = Some(OutDir)
    /\ manifest = NoManifest
    /\ pc = "search"
    /\ context = None
    /\ objects = {}
    /\ located = None
    /\ config = None
    /\ include_files = {}
    /\ asm_dirs = {}
    /\ files_todo = {}
    /\ dirs_todo = {}
    /\ entries_todo = {}
    /\ path = None
    /\ object_file = None
    /\ result = None
    /\ rename = None
    /\ invocations = <<>>
    /\ stdout = <<>>
    /\ fatal = None

\* search_for_config, lines 393-418
SearchForConfig ==
    /\ pc = "search"
    /\ located' = Some(search_for_config(cwd_depth, manifest_dirs, search_max))
    /\ pc' = "searched"
    /\ UNCHANGED <<env, context, objects, config, merged, files_todo, dirs_todo,
                   entries_todo, locals, invocations, stdout, fatal>>

NextLocate == SearchForConfig

SpecLocate == InitLocate /\ [][NextLocate]_vars

(***************************************************************************)
(* Vocabulary of the properties.                                           *)
(***************************************************************************)
Ran(tool) == {i \in DOMAIN invocations : invocations[i].tool = tool}

LinkDirectives ==
    {i \in DOMAIN stdout :
        stdout[i].directive \in {"rustc-link-search", "rustc-link-lib=static"}}

\* the run has ended in a panic or a fatal_error with this message
DiedWith(reason) == pc = "fatal" /\ IsSome(fatal) /\ Unwrap(fatal).reason = reason

\* the paths listed under `field` by the defaults entry and by the entry of
\* the per-target table whose key is `key`
ListedBy(entry, field) ==
    IF IsSome(entry) /\ IsSome(Unwrap(entry)[field])
    THEN Range(Unwrap(Unwrap(entry)[field]))
    ELSE {}

Listed(cfg, key, field) ==
    ListedBy(cfg.defaults, field)
    \cup (IF IsSome(cfg.target) /\ key \in DOMAIN Unwrap(cfg.target)
          THEN ListedBy(Some(Unwrap(cfg.target)[key]), field)
          ELSE {})

\* the manifest of the end-to-end example, its per-target table keyed by `key`
ExampleManifest(key) ==
    [kind |-> "toml",
     config |-> Some([defaults |-> Some([include_files |-> Some(<<BlobBin>>),
                                         asm_dirs |-> None]),
                      target |-> Some([k \in {key} |->
                                        [include_files |-> None,
                                         asm_dirs |-> Some(<<SrcBoot>>)]])])]

BlobObject == <<"o","u","t","/","b","l","o","b",".","b","i","n",".o">>

EntryObject == <<"o","u","t","/","e","n","t","r","y",".o">>

\* the objects handed to the archiver by the last tool run
Archived == invocations[Len(invocations)].objects

ExampleRunDone(key) ==
    /\ pc = "done"
    /\ target_string = Some(GcTriple)
    /\ manifest = ExampleManifest(key)

TwoLinkDirectives ==
    /\ Cardinality(LinkDirectives) = 2
    /\ \E i, j \in LinkDirectives :
        /\ stdout[i].directive = "rustc-link-search"
        /\ stdout[j].directive = "rustc-link-lib=static"

(***************************************************************************)
(* C1 as stated: with the per-target table keyed "riscv64gc" and the       *)
(* triple riscv64gc-unknown-none-elf, a run in which every tool exits zero *)
(* ends with the archiver run on exactly <out>/blob.bin.o and              *)
(* <out>/entry.o and with exactly two link directives.                     *)
(***************************************************************************)
EndToEndAsStated ==
    ExampleRunDone(<<"riscv64gc">>) =>
        /\ invocations[Len(invocations)].tool = "ar"
        /\ Archived = {BlobObject, EntryObject}
        /\ TwoLinkDirectives

(***************************************************************************)
(* C1 amended: the per-target table is looked up by the whole triple.      *)
(* Keyed "riscv64gc" the entry is not selected: the assembler never runs   *)
(* and the archiver is run on <out>/blob.bin.o alone.  Keyed               *)
(* "riscv64gc-unknown-none-elf" the archiver is run on exactly             *)
(* <out>/blob.bin.o and <out>/entry.o.  Either way exactly two link        *)
(* directives are printed.                                                 *)
(***************************************************************************)
EndToEndByWholeTriple ==
    /\ ExampleRunDone(<<"riscv64gc">>) =>
        /\ invocations[Len(invocations)].tool = "ar"
        /\ Archived = {BlobObject}
        /\ Ran("as") = {}
        /\ TwoLinkDirectives
    /\ ExampleRunDone(GcTriple) =>
        /\ invocations[Len(invocations)].tool = "ar"
        /\ Archived = {BlobObject, EntryObject}
        /\ TwoLinkDirectives

EndToEndWitness ==
    /\ ExampleRunDone(<<"riscv64gc">>)
    /\ Archived = {BlobObject}
    /\ Cardinality(LinkDirectives) = 2

\* one step taken from a register_object call site
RegisterStep ==
    pc \in {"renamed", "as_done"} =>
        IF Unwrap(object_file) \notin objects
        THEN /\ pc' # "fatal"
             /\ objects' = objects \cup {Unwrap(object_file)}
        ELSE /\ pc' = "fatal"
             /\ Unwrap(fatal').reason = "Cannot register object"
             /\ objects' = objects
             /\ Unwrap(object_file) \in objects

(***************************************************************************)
(* C2: every register_object call made by package_binary or assemble with  *)
(* a path not in the registry goes on and adds the path; a call with a     *)
(* path already in the registry ends the run fatally and leaves the        *)
(* registry as it was, holding the path (a set: once).                     *)
(***************************************************************************)
RegistryContract == [][RegisterStep]_vars

\* an assembled object collides with one that package_binary registered
RegistryWitness ==
    /\ DiedWith("Cannot register object")
    /\ invocations[Len(invocations)].tool = "as"
    /\ Ran("ld") # {}
    /\ objects = {Unwrap(object_file)}

(***************************************************************************)
(* C3: with the nearest manifest d levels above the working directory,     *)
(* search_for_config with bound B returns that manifest when B > d and     *)
(* not-found when B <= d; with no manifest up to the root it returns       *)
(* not-found after at most B steps.                                        *)
(***************************************************************************)
LocatorBound ==
    pc = "searched" =>
        LET r == Unwrap(located)
        IN  IF manifest_dirs # {}
            THEN /\ search_max > Min(manifest_dirs) => r.found = Some(Min(manifest_dirs))
                 /\ search_max <= Min(manifest_dirs) => r.found = None
            ELSE /\ r.found = None
                 /\ r.steps <= search_max

\* the nearest manifest is two levels up, below the root, and the bound is 3
LocatorWitness ==
    /\ pc = "searched"
    /\ manifest_dirs # {}
    /\ Min(manifest_dirs) = 2
    /\ cwd_depth > 2
    /\ search_max = 3
    /\ Unwrap(located).found = Some(2)

IsAsmFileName(name) ==
    /\ Len(name) >= 3
    /\ name[Len(name) - 1] = "." /\ name[Len(name)] = "s"
    /\ IsWord(name, 1, Len(name) - 2)

(***************************************************************************)
(* C4 as stated: the assembler is run only on direct entries that are      *)
(* regular files and whose file name is one or more alphanumeric or        *)
(* underscore characters followed by the extension ".s" and nothing more.  *)
(***************************************************************************)
AssemblerOnlyOnDotS ==
    \A i \in Ran("as") :
        \E dir \in asm_dirs : \E e \in DirectoryEntries(dir) :
            /\ invocations[i].input = EntryPath(dir, e.name)
            /\ e.is_file
            /\ IsAsmFileName(e.name)

CapturedOfLastRun ==
    IF invocations[Len(invocations)].tool = "objcopy" THEN rename ELSE result

(***************************************************************************)
(* C5 as stated: a nonzero exit of the linker, objcopy, the assembler or   *)
(* the archiver ends the run fatally, and the fatal message holds the      *)
(* stdout and stderr captured from that failing run.                       *)
(***************************************************************************)
FatalCarriesOwnOutput ==
    \A i \in DOMAIN invocations :
        invocations[i].exit # 0 =>
            /\ i = Len(invocations)
            /\ pc = "fatal"
            /\ Unwrap(fatal).captured = CapturedOfLastRun

OutputsOf(tool) == {invocations[i].output : i \in Ran(tool)}

(***************************************************************************)
(* C6: in a run that completes, the archiver is handed exactly the         *)
(* registry, which holds one distinct object per merged include_files      *)
(* entry and one per assembled file: as many objects as binaries packaged  *)
(* plus files assembled.                                                   *)
(***************************************************************************)
ArchiveIsRegistry ==
    pc = "done" =>
        /\ invocations[Len(invocations)].tool = "ar"
        /\ Archived = objects
        /\ {invocations[i].input : i \in Ran("ld")} = include_files
        /\ Cardinality(Ran("ld")) = Cardinality(include_files)
        /\ Cardinality(OutputsOf("ld")) = Cardinality(include_files)
        /\ Cardinality(OutputsOf("as")) = Cardinality(Ran("as"))
        /\ objects = OutputsOf("ld") \cup OutputsOf("as")
        /\ Cardinality(objects) = Cardinality(Ran("ld")) + Cardinality(Ran("as"))

\* a binary and two assembled files end up in the archive
ArchiveWitness ==
    /\ pc = "done"
    /\ include_files # {}
    /\ Cardinality(Ran("as")) = 2
    /\ Cardinality(Archived) = 3

Suffixes == <<"start", "end", "size">>

\* s is "_binary_" + body + "_" + suffix, body being `of` with every
\* character of `hidden` turned into '_'
IsSymbol(s, of, hidden, suffix) ==
    /\ Len(s) = Len(of) + 3
    /\ s[1] = "_binary_"
    /\ s[Len(s) - 1] = "_"
    /\ s[Len(s)] = suffix
    /\ \A k \in 1..Len(of) :
        s[k + 1] = IF of[k] \in hidden THEN "_" ELSE of[k]

(***************************************************************************)
(* C7: objcopy is run once per binary with three old=new pairs; the new    *)
(* names are _binary_<leaf>_start, _end and _size with <leaf> the file's   *)
(* leaf name, '.' replaced by '_': they hold no '/' or '.', and two paths  *)
(* with the same leaf get the same names; the old names are the whole      *)
(* path with '/' and '.' replaced by '_'.                                  *)
(***************************************************************************)
SymbolsFromLeaf ==
    \A i \in Ran("objcopy") :
        LET binary_path == invocations[i - 1].input
            leaf == Unwrap(file_name(binary_path))
            pairs == invocations[i].args
        IN  /\ invocations[i - 1].tool = "ld"
            /\ invocations[i].input = invocations[i - 1].output
            /\ DOMAIN pairs = 1..3
            /\ \A k \in 1..3 :
                /\ IsSymbol(pairs[k].new, leaf, {"."}, Suffixes[k])
                /\ IsSymbol(pairs[k].old, binary_path, {"/", "."}, Suffixes[k])
                /\ "/" \notin Range(pairs[k].new)
                /\ "." \notin Range(pairs[k].new)
            /\ \A j \in Ran("objcopy") :
                file_name(invocations[j - 1].input) = file_name(binary_path)
                    => \A k \in 1..3 : invocations[j].args[k].new = pairs[k].new

\* a/font.bin and b/font.bin have both been through objcopy
SymbolsWitness ==
    \E i, j \in Ran("objcopy") :
        /\ invocations[i - 1].input = AFontBin
        /\ invocations[j - 1].input = BFontBin
        /\ invocations[i].args[1].new = <<"_binary_", "f","o","n","t","_","b","i","n", "_", "start">>
        /\ invocations[j].args[1].old = <<"_binary_", "b","_","f","o","n","t","_","b","i","n", "_", "start">>

Merged ==
    pc \in {"main", "ld_done", "renamed", "dir", "as_done", "done"}

(***************************************************************************)
(* C8: the merged include_files and asm_dirs are the set union of what     *)
(* the defaults entry and the entry keyed by the target triple list,       *)
(* whatever the order and multiplicity; absent entries and fields add      *)
(* nothing; no path is processed twice, and when the archiver runs every   *)
(* merged path has been processed exactly once.                            *)
(***************************************************************************)
MergeIsUnion ==
    /\ Merged =>
        /\ include_files = Listed(Unwrap(manifest.config), Unwrap(target_string), "include_files")
        /\ asm_dirs = Listed(Unwrap(manifest.config), Unwrap(target_string), "asm_dirs")
    /\ \A f \in include_files :
        /\ Cardinality({i \in Ran("ld") : invocations[i].input = f}) <= 1
        /\ Ran("ar") # {} => Cardinality({i \in Ran("ld") : invocations[i].input = f}) = 1
    /\ \A i, j \in Ran("as") : invocations[i].input = invocations[j].input => i = j
    /\ Ran("ar") # {} =>
        /\ files_todo = {} /\ dirs_todo = {} /\ entries_todo = {}
        /\ \A dir \in asm_dirs : \A e \in DirectoryEntries(dir) :
            e.is_file /\ IsSome(regex_captures(EntryPath(dir, e.name)))
                => \E i \in Ran("as") : invocations[i].input = EntryPath(dir, e.name)

\* blob.bin is listed by the defaults entry and again by the target's entry
MergeWitness ==
    /\ pc = "done"
    /\ ListedBy(Unwrap(manifest.config).defaults, "include_files") = {BlobBin}
    /\ IsSome(Unwrap(manifest.config).target)
    /\ DOMAIN Unwrap(Unwrap(manifest.config).target) = {GcTriple}
    /\ Unwrap(Unwrap(manifest.config).target)[GcTriple].include_files = Some(<<BlobBin>>)
    /\ include_files = {BlobBin}
    /\ Cardinality(Ran("ld")) = 1

(***************************************************************************)
(* C9: the archiver is run at most once, as the last tool, after every     *)
(* merged include file has been wrapped and renamed and every merged       *)
(* directory processed, all with exit status zero; a tool that exits       *)
(* nonzero is the last tool run; after any failure nothing more happens;   *)
(* the two link directives are printed only after the archiver exited      *)
(* zero.                                                                   *)
(***************************************************************************)
StageOrder ==
    /\ Cardinality(Ran("ar")) <= 1
    /\ \A a \in Ran("ar") :
        /\ a = Len(invocations)
        /\ files_todo = {} /\ dirs_todo = {} /\ entries_todo = {}
        /\ \A f \in include_files :
            \E i \in Ran("ld") :
                /\ i + 1 < a
                /\ invocations[i].input = f
                /\ invocations[i + 1].tool = "objcopy"
        /\ \A i \in 1..(a - 1) : invocations[i].exit = 0
    /\ \A i \in DOMAIN invocations :
        invocations[i].exit # 0 => i = Len(invocations) /\ pc = "fatal"
    /\ IsSome(fatal) => pc = "fatal" /\ ~ENABLED Next
    /\ LinkDirectives # {} =>
        /\ pc = "done"
        /\ Ran("ar") # {}
        /\ invocations[Len(invocations)].tool = "ar"
        /\ invocations[Len(invocations)].exit = 0

\* a run through both loops that ended with the archive linked
StageOrderWitness ==
    /\ pc = "done"
    /\ include_files # {}
    /\ asm_dirs # {}
    /\ Ran("as") # {}
    /\ Cardinality(LinkDirectives) = 2

(***************************************************************************)
(* C10 as stated: neither the linker nor the assembler is run with an      *)
(* output path that is already in the registry: a collision is detected    *)
(* before the second input's tool writes the file.                         *)
(***************************************************************************)
NoOverwriteOfRegistered ==
    (/\ invocations # <<>>
     /\ invocations[Len(invocations)].tool \in {"ld", "as"}
     /\ pc \in {"ld_done", "as_done"} \/ invocations[Len(invocations)].exit # 0)
        => invocations[Len(invocations)].output \notin objects

====
